---- MODULE Spec2Model ----
(***************************************************************************)
(* Model of src/form-app/app.py: a Streamlit form that checks the caller's *)
(* privileges on a Unity Catalog volume, uploads a file to it and creates  *)
(* a table from the uploaded file.                                         *)
(*                                                                         *)
(* One action of the model is one run of the script, triggered by one user *)
(* interaction (Streamlit reruns the whole script on every interaction; a  *)
(* button returns True only in the run its click triggered, and a widget   *)
(* can be used only if the previous run rendered it).                      *)
(*                                                                         *)
(* Strings are sequences of one-character strings, so that strip, split    *)
(* and the f-string concatenations are computed, not assumed.              *)
(***************************************************************************)
EXTENDS Integers, Sequences, FiniteSets, TLC

VARIABLES
    upload_volume_path,   \* value of the text input of line 78
    uploaded_file,        \* value of the file uploader of line 93: None or Some(name)
    table_name_input,     \* value of the text input of line 131
    session_state,        \* st.session_state: a function from the keys present to values
    conn_cache,           \* st.cache_resource of get_connection: TRUE when a handle is cached
    calls,                \* remote calls issued by the last script run, in order
    msg,                  \* st.success / st.error shown by the last script run
    lastOp,               \* the interaction that triggered the last script run
    phase,                \* outcome of the last workflow step (the spec's state machine)
    last_upload,          \* path of the last w.files.upload that returned: None or Some(path)
    volume_files,         \* the object the remote volume holds at each observed path
    replaced,             \* the upload of the last run replaced an object the volume held
    connects              \* number of sql.connect calls that returned a handle

vars == <<upload_volume_path, uploaded_file, table_name_input, session_state,
          conn_cache, calls, msg, lastOp, phase, last_upload,
          volume_files, replaced, connects>>

----------------------------------------------------------------------------
(* Bounds of the model *)

\* identifiers of 1..MaxSegments dot-separated segments are typed
MaxSegments == 4
\* typed texts carry 0..MaxPad blanks on each side
MaxPad == 1

----------------------------------------------------------------------------
(* Strings *)

None == <<>>
Some(x) == <<x>>

Blank == " "
Dot == "."

RECURSIVE lstrip(_)
lstrip(s) == IF s # <<>> /\ Head(s) = Blank THEN lstrip(Tail(s)) ELSE s

RECURSIVE rstrip(_)
rstrip(s) ==
    IF s # <<>> /\ s[Len(s)] = Blank THEN rstrip(SubSeq(s, 1, Len(s) - 1)) ELSE s

\* str.strip()
strip(s) == rstrip(lstrip(s))

\* str.split(sep): the segments between the occurrences of sep; never empty
RECURSIVE splitFrom(_, _, _)
splitFrom(s, sep, cur) ==
    IF s = <<>> THEN <<cur>>
    ELSE IF Head(s) = sep THEN <<cur>> \o splitFrom(Tail(s), sep, <<>>)
    ELSE splitFrom(Tail(s), sep, Append(cur, Head(s)))

split(s, sep) == splitFrom(s, sep, <<>>)

\* sep.join(parts)
RECURSIVE join(_, _)
join(parts, sep) ==
    IF parts = <<>> THEN <<>>
    ELSE IF Len(parts) = 1 THEN parts[1]
    ELSE parts[1] \o <<sep>> \o join(Tail(parts), sep)

RECURSIVE blanks(_)
blanks(n) == IF n = 0 THEN <<>> ELSE <<Blank>> \o blanks(n - 1)

pad(s, n) == blanks(n) \o s \o blanks(n)

----------------------------------------------------------------------------
(* The remote platform, as the script sees it through the SDK *)

SegA == <<"a">>
SegB == <<"b">>
SegC == <<"c">>
SegD == <<"d">>

\* the privileges whose value line 39 accepts
WritePrivileges == {"ALL_PRIVILEGES", "WRITE_VOLUME"}

\* Volumes that exist, each with the effective grants of the calling principal:
\* None, or Some(privilege_assignments); an assignment is its list of
\* privilege values.
RemoteVolumes ==
    { [catalog |-> SegA, schema |-> SegB, name |-> SegC,
       grants |-> Some(<< <<"READ_VOLUME">>, <<"READ_VOLUME", "WRITE_VOLUME">> >>)],
      [catalog |-> SegA, schema |-> SegA, name |-> SegA,
       grants |-> Some(<< <<"ALL_PRIVILEGES">> >>)],
      [catalog |-> SegA, schema |-> SegB, name |-> SegD,
       grants |-> Some(<< <<"READ_VOLUME">>, <<>> >>)],
      [catalog |-> SegA, schema |-> SegB, name |-> SegB,
       grants |-> Some(<<>>)],
      [catalog |-> SegB, schema |-> SegB, name |-> SegB,
       grants |-> None] }

\* volume.full_name
FullName(v) == join(<<v.catalog, v.schema, v.name>>, Dot)

\* the principal holds ALL_PRIVILEGES or WRITE_VOLUME on volume v
HoldsWritePrivilege(v) ==
    /\ v.grants # None
    /\ \E i \in 1..Len(v.grants[1]) :
         \E j \in 1..Len(v.grants[1][i]) : v.grants[1][i][j] \in WritePrivileges

\* one entry of the log of remote calls
Call(op, arg, src, ok) == [op |-> op, arg |-> arg, src |-> src, ok |-> ok]

----------------------------------------------------------------------------
(* check_upload_permissions, lines 24-44 *)

Validated == "Volume and permissions validated"
NoGrants == "Insufficient permissions: No grants found"
NoPrivilege == "Insufficient permissions: Required privileges not found."
ErrorResult == "Error"

\* as privilegesMatch, looking at the first privilege only
privilegesMatchFirst(privileges) ==
    privileges # <<>> /\ Head(privileges) \in WritePrivileges

\* lines 38-40: some privilege of the assignment has an accepted value
RECURSIVE privilegesMatch(_)
privilegesMatch(privileges) ==
    IF privileges = <<>> THEN FALSE
    ELSE IF Head(privileges) \in WritePrivileges THEN TRUE
    ELSE privilegesMatch(Tail(privileges))

\* lines 37-40: the loops return at the first accepted privilege
RECURSIVE assignmentsMatch(_)
assignmentsMatch(assignments) ==
    IF assignments = <<>> THEN FALSE
    ELSE IF privilegesMatch(Head(assignments)) THEN TRUE
    ELSE assignmentsMatch(Tail(assignments))

\* lines 34-42: the result for the grants returned by get_effective
grantsResult(grants) ==
    IF grants = None \/ grants[1] = <<>> THEN NoGrants
    ELSE IF assignmentsMatch(grants[1]) THEN Validated
    ELSE NoPrivilege

\* as check_upload_permissions, going on after a failed identity lookup
check_upload_permissions_swallow(volume_name, fail) ==
    LET found == {v \in RemoteVolumes : FullName(v) = volume_name}
        readOk == fail # "volumes.read" /\ found # {}
        c1 == <<Call("volumes.read", volume_name, <<>>, readOk)>>
        c2 == <<Call("current_user.me", <<>>, <<>>, fail # "current_user.me")>>
        c3 == <<Call("grants.get_effective", volume_name, <<>>,
                     fail # "grants.get_effective")>>
    IN  IF ~readOk THEN [result |-> ErrorResult, calls |-> c1]
        ELSE IF fail = "grants.get_effective"
        THEN [result |-> ErrorResult, calls |-> c1 \o c2 \o c3]
        ELSE [result |-> grantsResult((CHOOSE v \in found : TRUE).grants),
              calls |-> c1 \o c2 \o c3]

\* The three lookups of lines 26-32 are issued in order; `fail` names the one
\* that raises ("none": no transport failure).  w.volumes.read also raises
\* when no volume has that name.  Result: the string returned and the remote
\* calls issued.
check_upload_permissions(volume_name, fail) ==
    LET found == {v \in RemoteVolumes : FullName(v) = volume_name}
        readOk == fail # "volumes.read" /\ found # {}
        meOk == fail # "current_user.me"
        grantsOk == fail # "grants.get_effective"
        c1 == <<Call("volumes.read", volume_name, <<>>, readOk)>>
        c2 == <<Call("current_user.me", <<>>, <<>>, meOk)>>
        c3 == <<Call("grants.get_effective", volume_name, <<>>, grantsOk)>>
    IN  IF ~readOk THEN [result |-> ErrorResult, calls |-> c1]
        ELSE IF ~meOk THEN [result |-> ErrorResult, calls |-> c1 \o c2]
        ELSE IF ~grantsOk THEN [result |-> ErrorResult, calls |-> c1 \o c2 \o c3]
        ELSE [result |-> grantsResult((CHOOSE v \in found : TRUE).grants),
              calls |-> c1 \o c2 \o c3]

CheckFailures == {"none", "volumes.read", "current_user.me", "grants.get_effective"}

----------------------------------------------------------------------------
(* st.session_state and the widgets *)

Has(ss, key) == key \in DOMAIN ss

SetKey(ss, key, value) ==
    [k \in DOMAIN ss \cup {key} |-> IF k = key THEN value ELSE ss[k]]

\* as UploaderRendered, without the test of volume_check_success
UploaderRenderedAlways(ss) == TRUE

\* line 92: the file uploader (and everything below it) is rendered
UploaderRendered(ss) == ss.volume_check_success

\* lines 95-96: the upload button is rendered
UploadButtonRendered(ss, file) == UploaderRendered(ss) /\ file # None

\* as TableUIRendered, without the test of file_upload
TableUIRenderedUngated(ss) == ss.volume_check_success

\* lines 126-136: the table-creation input and button are rendered
TableUIRendered(ss) ==
    /\ ss.volume_check_success
    /\ Has(ss, "file_upload")
    /\ ss.file_upload

\* lines 126-127, run by every script run that reaches them
initFileUpload(ss) ==
    IF ss.volume_check_success /\ ~Has(ss, "file_upload")
    THEN SetKey(ss, "file_upload", FALSE)
    ELSE ss

\* A widget the run does not render loses its value (Streamlit discards the
\* state of widgets that are not rendered).
keepFile(ss, file) == IF UploaderRendered(ss) THEN file ELSE None
keepTableName(ss, name) == IF TableUIRendered(ss) THEN name ELSE <<>>

\* What the run shows: st.success(text) or st.error(f"{text}: {e}"), where
\* detail names the call whose exception e is.
NoMessage == [kind |-> "none", text |-> "", detail |-> ""]
Success(text) == [kind |-> "success", text |-> text, detail |-> ""]
Error(text, detail) == [kind |-> "error", text |-> text, detail |-> detail]

\* the call that raised: the last one of the log, when it failed
raisedBy(log, otherwise) ==
    IF log # <<>> /\ ~log[Len(log)].ok THEN log[Len(log)].op ELSE otherwise

\* as afterCheck, also clearing the upload flag
afterCheckReset(ss, passed) ==
    SetKey([ss EXCEPT !.volume_check_success = passed], "file_upload", FALSE)

\* lines 85-89: what the check handler writes to the session state
afterCheck(ss, passed) == [ss EXCEPT !.volume_check_success = passed]

----------------------------------------------------------------------------
(* The upload handler, lines 98-124 *)

VolumesPrefix == <<"/", "V", "o", "l", "u", "m", "e", "s", "/">>
Slash == <<"/">>

\* as volumeFilePath, without the volume directory
volumeFilePathFlat(catalog, schema, volume_name, file_name) ==
    VolumesPrefix \o catalog \o Slash \o schema \o Slash \o file_name

\* lines 104-106 (and line 66)
volumeFilePath(catalog, schema, volume_name, file_name) ==
    VolumesPrefix \o catalog \o Slash \o schema \o Slash \o volume_name
        \o Slash \o file_name

\* as unpacks, but extra parts are ignored
unpacksAtLeast(parts) == Len(parts) >= 3

\* line 103: the unpacking into three names raises unless there are three parts
unpacks(parts) == Len(parts) = 3

\* The object a volume holds at a path: its bytes, None when there is none.
\* One path is observed (file f of the volume SegA.SegB.SegC); what the
\* volumes hold elsewhere is not recorded.
ObservedPaths ==
    { VolumesPrefix \o SegA \o Slash \o SegB \o Slash \o SegC \o Slash \o <<"f">> }

holds(store, path) == path \in DOMAIN store /\ store[path] # None

\* as uploadOverwrite, with the SDK's default
uploadOverwriteDefault == FALSE

\* line 107: overwrite=True
uploadOverwrite == TRUE

\* w.files.upload(path, data, overwrite) on the remote side: it raises when
\* the transfer fails, and when the path holds an object and overwrite is
\* off; otherwise the path holds data afterwards, whatever it held.
filesUpload(store, path, data, overwrite, transferOk) ==
    IF ~transferOk THEN [ok |-> FALSE, error |-> "files.upload", store |-> store]
    ELSE IF holds(store, path) /\ ~overwrite
    THEN [ok |-> FALSE, error |-> "AlreadyExists", store |-> store]
    ELSE [ok |-> TRUE, error |-> "",
          store |-> [p \in DOMAIN store |-> IF p = path THEN data ELSE store[p]]]

\* Lines 99-116 for the text and file of the widgets and the objects the
\* volumes hold; transferOk is the outcome of the transfer of
\* w.files.upload, which also raises when the path names no volume that
\* exists or a volume on which the principal lacks the write privilege
\* (lines 187-190: the privileges the upload requires).  raised: the except
\* branch of line 122 is taken.
uploadStep(text, file_name, data, store, transferOk) ==
    LET parts == split(strip(text), Dot)
        path == volumeFilePath(parts[1], parts[2], parts[3], file_name)
        reached == /\ transferOk
                   /\ \E v \in RemoteVolumes :
                        /\ parts = <<v.catalog, v.schema, v.name>>
                        /\ HoldsWritePrivilege(v)
        up == filesUpload(store, path, data, uploadOverwrite, reached)
    IN  IF ~unpacks(parts)
        THEN [raised |-> TRUE, error |-> "ValueError", calls |-> <<>>,
              details |-> None, store |-> store]
        ELSE IF ~up.ok
        THEN [raised |-> TRUE, error |-> up.error,
              calls |-> <<Call("files.upload", path, data, FALSE)>>,
              details |-> None, store |-> up.store]
        ELSE [raised |-> FALSE, error |-> "",
              calls |-> <<Call("files.upload", path, data, TRUE)>>,
              details |-> Some([catalog |-> parts[1],
                                schema |-> parts[2],
                                volume_name |-> parts[3],
                                file_name |-> file_name,
                                volume_file_path |-> path]),
              store |-> up.store]

\* as afterUpload, leaving the flag alone when the upload raised
afterUploadKeepFlag(ss, r) ==
    IF r.raised THEN ss
    ELSE SetKey(SetKey(ss, "file_upload", TRUE), "upload_details", r.details[1])

\* as afterUpload, not recording the upload
afterUploadNoRecord(ss, r) == SetKey(ss, "file_upload", ~r.raised)

\* lines 109-116 and 123: what the handler writes to the session state
afterUpload(ss, r) ==
    IF r.raised THEN SetKey(ss, "file_upload", FALSE)
    ELSE SetKey(SetKey(ss, "file_upload", TRUE), "upload_details", r.details[1])

----------------------------------------------------------------------------
(* get_connection and create_table_from_volume_file, lines 48-71 *)

\* lines 60 and 65: {catalog}.{schema}.{table_name}
tableFullName(catalog, schema, table_name) ==
    catalog \o <<Dot>> \o schema \o <<Dot>> \o table_name

\* as create_table_from_volume_file, executing query2 whatever query1 did
create_table_copy_always(catalog, schema, volume_name, file_name, table_name, fail) ==
    LET table == catalog \o <<Dot>> \o schema \o <<Dot>> \o table_name
        src == VolumesPrefix \o catalog \o Slash \o schema \o Slash
                   \o volume_name \o Slash \o file_name
        q1 == <<Call("CREATE TABLE IF NOT EXISTS", table, <<>>, fail # "CREATE")>>
        q2 == <<Call("COPY INTO", table, src, fail # "COPY")>>
    IN  [raised |-> fail \in {"CREATE", "COPY"}, calls |-> q1 \o q2]

\* Lines 58-71: query1 then query2 on one cursor; `fail` names the statement
\* that raises.  query2 is executed only when query1 returned.
create_table_from_volume_file(catalog, schema, volume_name, file_name, table_name, fail) ==
    LET table == tableFullName(catalog, schema, table_name)
        src == volumeFilePath(catalog, schema, volume_name, file_name)
        q1 == <<Call("CREATE TABLE IF NOT EXISTS", table, <<>>, fail # "CREATE")>>
        q2 == <<Call("COPY INTO", table, src, fail # "COPY")>>
    IN  IF fail = "CREATE" THEN [raised |-> TRUE, calls |-> q1]
        ELSE IF fail = "COPY" THEN [raised |-> TRUE, calls |-> q1 \o q2]
        ELSE [raised |-> FALSE, calls |-> q1 \o q2]

\* as get_connection, without the cache
get_connection_uncached(cached, fail) ==
    [raised |-> fail = "sql.connect",
     calls |-> <<Call("sql.connect", <<>>, <<>>, fail # "sql.connect")>>,
     cached |-> FALSE]

\* Lines 48-54: the cached handle is returned without a call; otherwise
\* sql.connect is called, and its handle is cached only when it returns.
get_connection(cached, fail) ==
    IF cached THEN [raised |-> FALSE, calls |-> <<>>, cached |-> TRUE]
    ELSE [raised |-> fail = "sql.connect",
          calls |-> <<Call("sql.connect", <<>>, <<>>, fail # "sql.connect")>>,
          cached |-> fail # "sql.connect"]

\* Lines 137-150: the body of the try block.
createStep(ss, cached, table_text, fail) ==
    LET conn == get_connection(cached, fail)
        details == ss.upload_details
        r == create_table_from_volume_file(details.catalog, details.schema,
                 details.volume_name, details.file_name, strip(table_text), fail)
    IN  IF conn.raised \/ ~Has(ss, "upload_details")
        THEN [raised |-> TRUE, calls |-> conn.calls, cached |-> conn.cached]
        ELSE [raised |-> r.raised, calls |-> conn.calls \o r.calls,
              cached |-> conn.cached]

CreateFailures == {"none", "sql.connect", "CREATE", "COPY"}

\* as afterCreate, dropping the consumed upload record
afterCreateDiscard(ss) ==
    [k \in DOMAIN ss \ {"upload_details"} |-> ss[k]]

\* lines 137-150 write nothing to the session state
afterCreate(ss) == ss

----------------------------------------------------------------------------
(* What the user can type and pick *)

SegmentNames == <<SegA, SegB, SegC, SegD>>

\* "a", "a.b", "a.b.c", "a.b.c.d", ...
Ident(n) == join([i \in 1..n |-> SegmentNames[((i - 1) % Len(SegmentNames)) + 1]], Dot)

VolumeTexts ==
    {<<>>}
    \cup {Ident(n) : n \in 1..MaxSegments}
    \cup {pad(Ident(3), k) : k \in 1..MaxPad}
    \cup {FullName(v) : v \in RemoteVolumes}
    \cup {join(<<SegA, <<>>, SegC>>, Dot), join(<<SegA, SegB, <<>>>>, Dot)}

FileNames == {<<"f">>, <<"g">>}

\* the bytes uploaded_file.read() can return (line 99)
FileContents == {<<"x">>, <<"y">>}

TableTexts == {<<>>} \cup {pad(<<"t">>, k) : k \in 0..MaxPad}

----------------------------------------------------------------------------
(* The script runs *)

\* The state after the first run of the script: lines 74-75 have set
\* volume_check_success, nothing below line 92 has run.
Init ==
    /\ upload_volume_path = <<>>
    /\ uploaded_file = None
    /\ table_name_input = <<>>
    /\ session_state = [volume_check_success |-> FALSE]
    /\ conn_cache = FALSE
    /\ calls = <<>>
    /\ msg = NoMessage
    /\ lastOp = "start"
    /\ phase = "Idle"
    /\ last_upload = None
    /\ volume_files = [p \in ObservedPaths |-> None]
    /\ replaced = FALSE
    /\ connects = 0

\* A run in which no button is pressed: lines 92-93 and 126-136 only render.
Render(ss, file, name) ==
    /\ session_state' = initFileUpload(ss)
    /\ uploaded_file' = keepFile(session_state', file)
    /\ table_name_input' = keepTableName(session_state', name)

\* The user edits the volume text input (line 78).
EditVolumePath ==
    \E text \in VolumeTexts :
        /\ text # upload_volume_path
        /\ upload_volume_path' = text
        /\ Render(session_state, uploaded_file, table_name_input)
        /\ calls' = <<>>
        /\ msg' = NoMessage
        /\ lastOp' = "edit"
        /\ replaced' = FALSE
        /\ UNCHANGED <<conn_cache, phase, last_upload, volume_files, connects>>

\* The user presses "Check Volume and permissions" (lines 83-90).
CheckVolume ==
    \E fail \in CheckFailures :
        LET r == check_upload_permissions(strip(upload_volume_path), fail)
            passed == r.result = Validated
        IN  /\ Render(afterCheck(session_state, passed), uploaded_file, table_name_input)
            /\ calls' = r.calls
            /\ msg' = IF passed THEN Success(Validated)
                      ELSE Error(r.result, raisedBy(r.calls, ""))
            /\ lastOp' = "check"
            /\ phase' = IF passed THEN "Validated" ELSE "Denied"
            /\ replaced' = FALSE
            /\ UNCHANGED <<upload_volume_path, conn_cache, last_upload,
                           volume_files, connects>>

\* The user picks or clears a file in the uploader (line 93).
PickFile ==
    \E file \in {None} \cup {Some(f) : f \in FileNames} :
        /\ UploaderRendered(session_state)
        /\ file # uploaded_file
        /\ Render(session_state, file, table_name_input)
        /\ calls' = <<>>
        /\ msg' = NoMessage
        /\ lastOp' = "pick"
        /\ replaced' = FALSE
        /\ UNCHANGED <<upload_volume_path, conn_cache, phase, last_upload,
                       volume_files, connects>>

\* The user presses "Upload file to ..." (lines 95-124).
UploadFile ==
    \E transferOk \in BOOLEAN, file_bytes \in FileContents :
        LET r == uploadStep(upload_volume_path, uploaded_file[1], file_bytes,
                            volume_files, transferOk)
        IN  /\ UploadButtonRendered(session_state, uploaded_file)
            /\ Render(afterUpload(session_state, r), uploaded_file, table_name_input)
            /\ calls' = r.calls
            /\ msg' = IF r.raised
                      THEN Error("Error uploading file", r.error)
                      ELSE Success("uploaded")
            /\ lastOp' = "upload"
            /\ phase' = IF r.raised THEN "Failed" ELSE "Uploaded"
            /\ last_upload' = IF r.raised THEN last_upload
                              ELSE Some(r.calls[1].arg)
            /\ volume_files' = r.store
            /\ replaced' = (~r.raised /\ holds(volume_files, r.calls[1].arg))
            /\ UNCHANGED <<upload_volume_path, conn_cache, connects>>

\* The user edits the table name input (line 131).
EditTableName ==
    \E text \in TableTexts :
        /\ TableUIRendered(session_state)
        /\ text # table_name_input
        /\ Render(session_state, uploaded_file, text)
        /\ calls' = <<>>
        /\ msg' = NoMessage
        /\ lastOp' = "name"
        /\ replaced' = FALSE
        /\ UNCHANGED <<upload_volume_path, conn_cache, phase, last_upload,
                       volume_files, connects>>

\* The user presses "Create Table from Uploaded File" (lines 136-150).
CreateTable ==
    \E fail \in CreateFailures :
        LET r == createStep(session_state, conn_cache, table_name_input, fail)
        IN  /\ TableUIRendered(session_state)
            /\ Render(afterCreate(session_state), uploaded_file, table_name_input)
            /\ conn_cache' = r.cached
            /\ calls' = r.calls
            /\ msg' = IF r.raised
                      THEN Error("Error creating table", raisedBy(r.calls, "KeyError"))
                      ELSE Success("created")
            /\ lastOp' = "create"
            /\ phase' = IF r.raised THEN "Failed" ELSE "Created"
            /\ replaced' = FALSE
            /\ connects' = connects + Cardinality({i \in DOMAIN r.calls :
                                r.calls[i].op = "sql.connect" /\ r.calls[i].ok})
            /\ UNCHANGED <<upload_volume_path, last_upload, volume_files>>

Next ==
    \/ EditVolumePath
    \/ CheckVolume
    \/ PickFile
    \/ UploadFile
    \/ EditTableName
    \/ CreateTable

Spec == Init /\ [][Next]_vars

----------------------------------------------------------------------------
(* Properties *)

\* the remote calls of the last run with operation op
CallsOf(op) == {i \in DOMAIN calls : calls[i].op = op}

SqlOps == {"sql.connect", "CREATE TABLE IF NOT EXISTS", "COPY INTO"}

\* the segments of the identifier as the upload handler sees them
TypedParts == split(strip(upload_volume_path), Dot)

\* the paths of the volumes that exist and on which the principal holds
\* neither ALL_PRIVILEGES nor WRITE_VOLUME
UnprivilegedPaths ==
    { VolumesPrefix \o join(<<v.catalog, v.schema, v.name, f>>, "/") :
        v \in {u \in RemoteVolumes : ~HoldsWritePrivilege(u)}, f \in FileNames }

\* C1: w.files.upload is never issued for a volume on which the principal
\* holds neither ALL_PRIVILEGES nor WRITE_VOLUME.
C1_NoUploadWithoutWritePrivilege ==
    \A i \in CallsOf("files.upload") : calls[i].arg \notin UnprivilegedPaths

\* C2: the table-creation step runs, and a connection or SQL statement is
\* issued, only in a session whose last upload attempt succeeded and was
\* recorded (file_upload is True and upload_details is set).
C2_CreateOnlyAfterRecordedUpload ==
    /\ (\E i \in DOMAIN calls : calls[i].op \in SqlOps) => lastOp = "create"
    /\ lastOp = "create" =>
         /\ last_upload # None
         /\ Has(session_state, "file_upload")
         /\ session_state.file_upload
         /\ Has(session_state, "upload_details")

C2_Witness ==
    /\ lastOp = "create"
    /\ CallsOf("CREATE TABLE IF NOT EXISTS") # {}
    /\ CallsOf("COPY INTO") # {}

\* C3: an upload pressed with an identifier that does not split into exactly
\* three segments issues no remote call, sets file_upload to False and shows
\* an error.
C3_WrongSegmentCountFailsBeforeAnyCall ==
    (lastOp = "upload" /\ Len(TypedParts) # 3) =>
        /\ calls = <<>>
        /\ Has(session_state, "file_upload")
        /\ ~session_state.file_upload
        /\ msg.kind = "error"
        /\ msg.text = "Error uploading file"

C3_Witness ==
    /\ lastOp = "upload"
    /\ Len(TypedParts) > 3
    /\ msg.kind = "error"

\* C4: an upload pressed with an identifier of three segments of which one is
\* empty fails without calling w.files.upload.
C4_EmptySegmentRejected ==
    (/\ lastOp = "upload"
     /\ Len(TypedParts) = 3
     /\ \E i \in 1..3 : TypedParts[i] = <<>>) =>
        /\ CallsOf("files.upload") = {}
        /\ ~session_state.file_upload

\* C5 as stated: after a press of the check button, an upload recorded before
\* the check no longer enables table creation.
C5_CheckResetsUploadFlag ==
    lastOp = "check" => ~TableUIRendered(session_state)

\* C5 as amended: a press of the check button overwrites volume_check_success
\* with the outcome of that check and leaves file_upload and upload_details
\* as they were (file_upload is created as False when it was absent and the
\* check passed), so table creation is enabled after the check exactly when
\* the check passed and an upload was recorded as succeeded before it.
C5_CheckResetsOnlyPermissionFlag ==
    [][lastOp' = "check" =>
        /\ session_state'.volume_check_success = (msg'.kind = "success")
        /\ Has(session_state', "upload_details") = Has(session_state, "upload_details")
        /\ Has(session_state, "upload_details") =>
             session_state'.upload_details = session_state.upload_details
        /\ Has(session_state, "file_upload") =>
             /\ Has(session_state', "file_upload")
             /\ session_state'.file_upload = session_state.file_upload
        /\ (~Has(session_state, "file_upload") /\ Has(session_state', "file_upload")) =>
             ~session_state'.file_upload
        /\ TableUIRendered(session_state') =
             (/\ msg'.kind = "success"
              /\ Has(session_state, "file_upload")
              /\ session_state.file_upload)
      ]_vars

C5_Witness ==
    /\ lastOp = "check"
    /\ TableUIRendered(session_state)
    /\ last_upload # None

\* C6: the check returns the validated string exactly when the three lookups
\* succeed and some privilege of some assignment is ALL_PRIVILEGES or
\* WRITE_VOLUME; an "Insufficient permissions" string when they succeed
\* without such a privilege; an "Error" string when a lookup raises; and
\* volume_check_success is True exactly when the result is the validated
\* string.
C6_CheckResult ==
    lastOp = "check" =>
        LET name == strip(upload_volume_path)
            lookupsOk == Len(calls) = 3 /\ \A i \in DOMAIN calls : calls[i].ok
            result == msg.text
        IN  /\ (result = Validated) =
                 (/\ lookupsOk
                  /\ \E v \in RemoteVolumes :
                       FullName(v) = name /\ HoldsWritePrivilege(v))
            /\ (lookupsOk /\ result # Validated) => result \in {NoGrants, NoPrivilege}
            /\ ~lookupsOk => result = ErrorResult
            /\ session_state.volume_check_success = (result = Validated)
            /\ msg.kind = IF result = Validated THEN "success" ELSE "error"

C6_Witness ==
    /\ lastOp = "check"
    /\ strip(upload_volume_path) = Ident(3)
    /\ session_state.volume_check_success
    /\ msg.text = Validated

\* C7 as stated: a check starts only from Idle, an upload only from Validated
\* and a table creation only from Uploaded.
C7_StrictlyForward ==
    [][/\ lastOp' = "check" => phase = "Idle"
       /\ lastOp' = "upload" => phase = "Validated"
       /\ lastOp' = "create" => phase = "Uploaded"
      ]_vars

\* C7 as amended: a check can start from every state and ends in Validated or
\* Denied; an upload starts only while the last check passed (never from Idle
\* or Denied) and ends in Uploaded or Failed; a table creation starts only
\* while the last check passed and the last upload attempt succeeded (never
\* from Idle or Denied) and ends in Created or Failed.
C7_GatedSteps ==
    [][/\ lastOp' = "check" => phase' \in {"Validated", "Denied"}
       /\ lastOp' = "upload" =>
            /\ phase \notin {"Idle", "Denied"}
            /\ session_state.volume_check_success
            /\ phase' \in {"Uploaded", "Failed"}
       /\ lastOp' = "create" =>
            /\ phase \notin {"Idle", "Denied"}
            /\ session_state.volume_check_success
            /\ Has(session_state, "file_upload")
            /\ session_state.file_upload
            /\ phase' \in {"Created", "Failed"}
       /\ lastOp' \notin {"check", "upload", "create"} => phase' = phase
      ]_vars

C7_Witness ==
    /\ lastOp = "check"
    /\ phase = "Denied"
    /\ last_upload # None

\* C8 as stated: once a table creation has run, the upload record is no
\* longer available to a further table creation.
C8_RecordDiscardedAfterCreate ==
    lastOp = "create" =>
        ~(TableUIRendered(session_state) /\ Has(session_state, "upload_details"))

\* C8 as amended: upload_details is written only by a successful upload, is
\* read by the table-creation step and is never discarded: a table creation,
\* whatever its outcome, leaves the session state unchanged, so the record
\* stays available to further table creations.
C8_RecordKeptAfterCreate ==
    [][/\ (/\ Has(session_state', "upload_details")
           /\ \/ ~Has(session_state, "upload_details")
              \/ session_state'.upload_details # session_state.upload_details)
          => (lastOp' = "upload" /\ msg'.kind = "success")
       /\ Has(session_state, "upload_details") => Has(session_state', "upload_details")
       /\ lastOp' = "create" =>
            /\ session_state' = session_state
            /\ TableUIRendered(session_state')
            /\ \A i \in CallsOf("COPY INTO")' :
                 calls'[i].src = session_state.upload_details.volume_file_path
      ]_vars

C8_Witness ==
    /\ lastOp = "create"
    /\ phase = "Created"
    /\ conn_cache
    /\ CallsOf("sql.connect") = {}
    /\ TableUIRendered(session_state)

C10_PathsAndTargets ==
    /\ (lastOp = "upload" /\ calls # <<>>) =>
         /\ calls[1].arg =
              VolumesPrefix \o join(TypedParts \o <<uploaded_file[1]>>, "/")
         /\ (upload_volume_path = Ident(3) /\ uploaded_file = Some(<<"f">>)) =>
              calls[1].arg = <<"/", "V", "o", "l", "u", "m", "e", "s",
                               "/", "a", "/", "b", "/", "c", "/", "f">>
    /\ lastOp = "create" =>
         \A i \in DOMAIN calls :
             calls[i].op \in {"CREATE TABLE IF NOT EXISTS", "COPY INTO"} =>
                 /\ calls[i].arg =
                      join(<<session_state.upload_details.catalog,
                             session_state.upload_details.schema,
                             strip(table_name_input)>>, Dot)
                 /\ calls[i].op = "COPY INTO" =>
                      /\ calls[i].src = session_state.upload_details.volume_file_path
                      /\ Some(calls[i].src) = last_upload

C10_Witness ==
    /\ lastOp = "create"
    /\ CallsOf("COPY INTO") # {}
    /\ strip(table_name_input) = <<"t">>
    /\ last_upload = Some(<<"/", "V", "o", "l", "u", "m", "e", "s",
                            "/", "a", "/", "b", "/", "c", "/", "f">>)
    /\ TypedParts # <<SegA, SegB, SegC>>

\* C11: a successful upload writes the bytes read to the path built from the
\* stripped identifier and the file name, replacing what the path held (the
\* upload is never refused because the path holds an object), so the path
\* holds the bytes of the latest upload; and an upload to the path already
\* recorded leaves file_upload and upload_details as the first left them.
C11_ReuploadOverwrites ==
    [][lastOp' = "upload" =>
        /\ msg'.detail # "AlreadyExists"
        /\ msg'.kind # "success" => volume_files' = volume_files
        /\ msg'.kind = "success" =>
             LET path == calls'[1].arg
             IN  /\ path = VolumesPrefix \o
                             join(split(strip(upload_volume_path'), Dot)
                                      \o <<uploaded_file'[1]>>, "/")
                 /\ \A p \in ObservedPaths :
                      volume_files'[p] =
                          IF p = path THEN calls'[1].src ELSE volume_files[p]
                 /\ replaced' = holds(volume_files, path)
                 /\ session_state'.file_upload
                 /\ session_state'.upload_details.volume_file_path = path
                 /\ (/\ Has(session_state, "upload_details")
                     /\ session_state.upload_details.volume_file_path = path) =>
                        session_state'.upload_details = session_state.upload_details
                 /\ (/\ TableUIRendered(session_state)
                     /\ session_state.upload_details.volume_file_path = path) =>
                        session_state' = session_state
      ]_vars

C11_Witness ==
    /\ lastOp = "upload"
    /\ msg.kind = "success"
    /\ replaced
    /\ strip(upload_volume_path) # upload_volume_path
    /\ volume_files[calls[1].arg] = <<"y">>

\* C12: a remote call that raises is the last call of its run and the run
\* shows an error naming it; no run issues the same call twice; and a run
\* that shows an error leaves the next step unreachable (a failed check
\* hides the upload, a failed upload hides the table creation) or, for a
\* table creation, ends in Failed.
C12_FailuresCaughtNoRetry ==
    /\ \A i \in DOMAIN calls :
         ~calls[i].ok =>
             /\ i = Len(calls)
             /\ msg.kind = "error"
             /\ msg.detail \in {calls[i].op, "AlreadyExists"}
    /\ \A i, j \in DOMAIN calls : calls[i].op = calls[j].op => i = j
    /\ (lastOp = "check" /\ msg.kind = "error") =>
         /\ ~UploadButtonRendered(session_state, uploaded_file)
         /\ phase = "Denied"
    /\ (lastOp = "upload" /\ msg.kind = "error") =>
         /\ ~TableUIRendered(session_state)
         /\ phase = "Failed"
    /\ (lastOp = "create" /\ msg.kind = "error") => phase = "Failed"
    /\ (lastOp \in {"check", "upload", "create"} /\ msg.kind = "success") =>
         \A i \in DOMAIN calls : calls[i].ok

C12_Witness ==
    /\ lastOp = "check"
    /\ Len(calls) = 2
    /\ ~calls[2].ok
    /\ msg.detail = "current_user.me"
    /\ last_upload # None

\* C13: an upload attempt that raises sets file_upload to False, which hides
\* the table creation, and leaves volume_check_success and upload_details as
\* they were; file_upload becomes True again only by a successful upload.
C13_FailedUploadRevokesCreate ==
    [][/\ (lastOp' = "upload" /\ msg'.kind = "error") =>
            /\ Has(session_state', "file_upload")
            /\ ~session_state'.file_upload
            /\ ~TableUIRendered(session_state')
            /\ session_state'.volume_check_success
                 = session_state.volume_check_success
            /\ Has(session_state', "upload_details")
                 = Has(session_state, "upload_details")
            /\ Has(session_state, "upload_details") =>
                 session_state'.upload_details = session_state.upload_details
       /\ (/\ Has(session_state, "file_upload")
           /\ ~session_state.file_upload
           /\ session_state'.file_upload) =>
            (lastOp' = "upload" /\ msg'.kind = "success")
      ]_vars

C13_Witness ==
    /\ lastOp = "upload"
    /\ msg.kind = "error"
    /\ last_upload # None
    /\ Has(session_state, "upload_details")
    /\ session_state.volume_check_success
    /\ ~session_state.file_upload

\* C14: while file_upload is True, upload_details is set and is the record
\* (catalog, schema, volume, file name, path) of the last upload that
\* succeeded; a failed upload, a check and a table creation do not write
\* upload_details.
C14_DetailsOfLastUpload ==
    [][/\ (Has(session_state', "file_upload") /\ session_state'.file_upload) =>
            /\ Has(session_state', "upload_details")
            /\ last_upload' = Some(session_state'.upload_details.volume_file_path)
            /\ session_state'.upload_details.volume_file_path =
                 VolumesPrefix \o
                   join(<<session_state'.upload_details.catalog,
                          session_state'.upload_details.schema,
                          session_state'.upload_details.volume_name,
                          session_state'.upload_details.file_name>>, "/")
       /\ (\/ lastOp' \in {"check", "create"}
           \/ (lastOp' = "upload" /\ msg'.kind = "error")) =>
            /\ Has(session_state', "upload_details")
                 = Has(session_state, "upload_details")
            /\ Has(session_state, "upload_details") =>
                 session_state'.upload_details = session_state.upload_details
      ]_vars

C14_Witness ==
    /\ lastOp = "upload"
    /\ msg.kind = "success"
    /\ session_state.file_upload
    /\ session_state.upload_details.file_name = <<"g">>
    /\ session_state.upload_details.volume_name = SegA
    /\ volume_files[CHOOSE p \in ObservedPaths : TRUE] # None

\* C15: sql.connect returns a handle at most once, the handle is cached from
\* then on and no later run calls sql.connect; every statement is executed
\* after that one connect returned; sql.connect is called only by a run of
\* the create-table button.
C15_OneCachedConnection ==
    [][/\ connects' <= 1
       /\ conn_cache' = (connects' = 1)
       /\ CallsOf("sql.connect")' # {} => (lastOp' = "create" /\ ~conn_cache)
       /\ conn_cache => (conn_cache' /\ CallsOf("sql.connect")' = {})
       /\ (\E i \in DOMAIN calls' :
              calls'[i].op \in {"CREATE TABLE IF NOT EXISTS", "COPY INTO"}) =>
            connects' = 1
      ]_vars

C15_Witness ==
    /\ lastOp = "create"
    /\ msg.kind = "success"
    /\ connects = 1
    /\ CallsOf("sql.connect") = {}
    /\ CallsOf("COPY INTO") # {}

====
